---- MODULE Spec2Model ----
(***************************************************************************)
(* Model of the Telegram webhook of the life-log application               *)
(* (src/pages/api/webhook/telegram.ts, the handler of lines 306-411 with   *)
(* its extractors, lines 196-304) and of the storage it writes             *)
(* (src/prisma/schema.prisma).                                             *)
(*                                                                         *)
(* A string is a sequence of one-character strings.  Every awaited         *)
(* operation of the handler is one action: the action is the resolution    *)
(* (or rejection) of the awaited promise together with the synchronous     *)
(* code that follows it up to the next await.  Several requests are in     *)
(* flight at once and interleave at their awaits.                          *)
(***************************************************************************)
EXTENDS Naturals, Sequences, FiniteSets, TLC

(***************************************************************************)
(* Bounds of the model.                                                    *)
(***************************************************************************)
NumReq == 2      \* requests in flight
MaxLen == 4      \* longest text enumerated exhaustively for the extractors
MaxPhotos == 2   \* longest photo list of a payload
MaxFoods == 2    \* longest food list the nutrition service returns

Reqs == 1..NumReq

(***************************************************************************)
(* Texts.                                                                  *)
(***************************************************************************)
Text_empty == << >>
Text_gm == <<"g", "m">>
Text_gn == <<"g", "n">>
Text_ate == <<"a", "t", "e">>
Text_drank == <<"d", "r", "a", "n", "k">>
Text_i_ate == <<"i", " ", "a", "t", "e">>
Text_GM == <<"G", "M">>
Text_gm_sp == <<"g", "m", " ">>
Text_sp_gn == <<" ", "g", "n">>
Text_gmate == <<"g", "m", "a", "t", "e">>
Text_hi == <<"h", "i">>
Text_drink == <<"d", "r", "i", "n", "k">>
Text_i_drank == <<"i", " ", "d", "r", "a", "n", "k">>

\* the texts of the payloads the handler is run on
Texts == {Text_empty, Text_gm, Text_gn, Text_i_ate, Text_hi}

Alphabet == {"g", "m", "n", "a", "t", "e", " "}

\* the texts the extractors are run on one by one
AllTexts ==
  UNION {[1..n -> Alphabet] : n \in 0..MaxLen}
    \cup Texts
    \cup {Text_drank, Text_GM, Text_gm_sp, Text_sp_gn, Text_gmate, Text_drink,
          Text_i_drank}

(***************************************************************************)
(* Configuration read from the environment.                                *)
(***************************************************************************)
TELEGRAM_USERNAME == "alice"
Usernames == {"alice", "mallory"}
\* OPERAND_COLLECTION_ID: unset, or the id of a collection
NoCollection == ""
CollectionIds == {NoCollection, "col"}

FileIds == {"a", "b"}
Foods == {"apple", "milk"}

SeqsUpTo(S, n) == UNION {[1..k -> S] : k \in 0..n}

(***************************************************************************)
(* The payload: message.from.username, message.text?, message.photo?       *)
(***************************************************************************)
NoText == [present |-> FALSE, val |-> << >>]
NoPhoto == [present |-> FALSE, list |-> << >>]
TextFields == {NoText} \cup {[present |-> TRUE, val |-> t] : t \in Texts}
PhotoFields ==
  {NoPhoto} \cup {[present |-> TRUE, list |-> l] : l \in SeqsUpTo(FileIds, MaxPhotos)}
TelegramRequest ==
  [username : Usernames, text : TextFields, photo : PhotoFields]

\* Fault: the text is tested for presence only, "" passes.
TextTruthy_Defined(body) == body.text.present

\* `if (body.message.text)`: a string is truthy iff it is present and not ""
TextTruthy(body) == body.text.present /\ Len(body.text.val) > 0
\* `body.message.photo && body.message.photo.length > 0`
PhotoTruthy(body) == body.photo.present /\ Len(body.photo.list) > 0

(***************************************************************************)
(* Extractors.                                                             *)
(***************************************************************************)
NoMeta == "undefined"

\* String.prototype.includes
includes(message, word) ==
  \E k \in 1..(Len(message) + 1) :
     /\ k + Len(word) - 1 <= Len(message)
     /\ SubSeq(message, k, k + Len(word) - 1) = word

\* Fault: "gm" anywhere in the message.
gmExtractor_Includes(message) ==
  IF ~includes(message, Text_gm) THEN << >>
  ELSE <<[type |-> "GOOD_MORNING", meta |-> NoMeta]>>

gmExtractor(message) ==
  IF message # Text_gm THEN << >>
  ELSE <<[type |-> "GOOD_MORNING", meta |-> NoMeta]>>

\* Fault: "gm" is taken for a good night too.
gnExtractor_AlsoGm(message) ==
  IF message # Text_gn /\ message # Text_gm THEN << >>
  ELSE <<[type |-> "GOOD_NIGHT", meta |-> NoMeta]>>

gnExtractor(message) ==
  IF message # Text_gn THEN << >>
  ELSE <<[type |-> "GOOD_NIGHT", meta |-> NoMeta]>>

interestedWords == {Text_ate, Text_drank}

\* Fault: only the first of the interested words is looked for.
interested_FirstWord(message) == includes(message, Text_ate)

\* the test that guards the nutrition request of ateDrankExtractor
interested(message) == \E word \in interestedWords : includes(message, word)

\* foods.map((food) => ({ type: "ATE_OR_DRANK", meta: food }))
foodEvents(foods) ==
  [k \in 1..Len(foods) |-> [type |-> "ATE_OR_DRANK", meta |-> foods[k]]]

\* The answers of the nutrition service to one request: the fetch rejects,
\* the response is not ok, or it is ok and carries a list of foods.
NutritionAnswers(known) ==
  {[kind |-> "netfail", foods |-> << >>], [kind |-> "notok", foods |-> << >>]}
    \cup {[kind |-> "ok", foods |-> f] : f \in SeqsUpTo(known, MaxFoods)}

\* getNutrition throws unless the response is ok
getNutritionThrows(answer) == answer.kind # "ok"

\* The synchronous start of an extractor: it either returns its outputs at
\* once, or goes on to await getNutrition(message).
extractorAwaits(name, message) == name = "ateDrankExtractor" /\ interested(message)
extractorReturns(name, message) ==
  CASE name = "gmExtractor" -> gmExtractor(message)
    [] name = "gnExtractor" -> gnExtractor(message)
    [] OTHER -> << >>

extractors == <<"gmExtractor", "gnExtractor", "ateDrankExtractor">>

(***************************************************************************)
(* State.                                                                  *)
(***************************************************************************)
VARIABLES
  exts,          \* the module's list `extractors`
  collectionId,  \* process.env.OPERAND_COLLECTION_ID
  logs,          \* table Log
  attachments,   \* table Attachment
  events,        \* table Event
  objects,       \* the objects created in the search backend
  req,           \* the requests: position, payload, locals, response
  unit,          \* one extractor run on one text, on its own
  menu           \* the foods the nutrition service knows

vars == <<exts, collectionId, logs, attachments, events, objects, req, unit, menu>>

Steps ==
  {"logCreate", "extractor", "getNutrition", "createMany", "createObject",
   "getFile", "download", "attachmentCreate"}

\* the arguments of createObject: metadata.text or the attachment of
\* metadata.imageUrl, and properties.log
NoPush ==
  [parentId |-> NoCollection, type |-> "none", text |-> << >>, attachment |-> 0,
   log |-> 0]
NoFile == [status |-> "none", bytes |-> ""]
ErrorPage == "error page"

\* a request that has not arrived
IdleReq ==
  [pc |-> "idle",
   body |-> [username |-> TELEGRAM_USERNAME, text |-> NoText, photo |-> NoPhoto],
   log |-> 0,            \* log.id, 0 before the Log is created
   attachment |-> 0,     \* attachment.id, 0 before the Attachment is created
   events |-> << >>,     \* the local `events`
   i |-> 0,              \* position of the loop over the extractors
   ran |-> << >>,        \* the extractors invoked so far
   id |-> "",            \* the file_id chosen
   fetched |-> << >>,    \* the file ids asked of getFile
   filePath |-> "",      \* fileResponse.result.file_path
   file |-> NoFile,      \* the response of the download
   push |-> NoPush,      \* the arguments of operand.createObject
   calls |-> [s \in Steps |-> 0],
   seen |-> << >>,       \* the calls made, each with how it ended
   thrownBy |-> "none",  \* the step whose failure ended the request
   res |-> "none"]       \* the response sent: "none" or "200"

\* @default(cuid()): an id that no other row of the table has.  A request
\* creates at most one Log, one Attachment and one batch of Events, so the
\* number of the request stands for the id drawn for its row.
cuid(r) == r

\* res.status(200).end()
Done(rec) == [rec EXCEPT !.pc = "done", !.res = "200"]
\* an awaited promise rejects, or the code throws: nothing catches it
Throw(rec, step) == [rec EXCEPT !.pc = "error", !.thrownBy = step]
\* one more call of `step`, and how the call ended: "ok", or "fail",
\* "netfail" (the fetch rejects), "notok" or "non2xx" (the status)
Called(rec, step, how) ==
  [rec EXCEPT !.calls[step] = @ + 1, !.seen = Append(@, <<step, how>>)]

Text(rec) == rec.body.text.val

\* Fault: the text is indexed without the test of the collection id.
AfterEvents_NoTargetTest(rec) ==
  IF Len(Text(rec)) > 0
    THEN [rec EXCEPT !.pc = "indexText"]
    ELSE Done(rec)

\* lines 341-356, then 409-410
AfterEvents(rec) ==
  IF collectionId # NoCollection /\ Len(Text(rec)) > 0
    THEN [rec EXCEPT !.pc = "indexText"]
    ELSE Done(rec)

\* Fault: createMany is called with an empty list too.
AfterLoop_AlwaysCreate(rec) == [rec EXCEPT !.pc = "createMany"]

\* lines 332-339
AfterLoop(rec) ==
  IF Len(rec.events) > 0
    THEN [rec EXCEPT !.pc = "createMany"]
    ELSE AfterEvents(rec)

\* `for (const extractor of extractors)`: the next extractor, or the loop ends
LoopNext(rec) ==
  IF rec.i < Len(exts)
    THEN [rec EXCEPT !.pc = "extract", !.i = @ + 1]
    ELSE AfterLoop(rec)

\* no extractor is being run on its own
UnitOff ==
  [pc |-> "off", message |-> << >>, extractor |-> "none", out |-> << >>,
   fetches |-> 0, foods |-> << >>]

\* empty tables, no request yet
InitStore ==
  /\ logs = {}
  /\ attachments = {}
  /\ events = {}
  /\ objects = {}
  /\ req = [r \in Reqs |-> IdleReq]

Init ==
  /\ exts = extractors
  /\ collectionId \in CollectionIds
  /\ InitStore
  /\ unit = UnitOff
  /\ menu = {"apple"}

(***************************************************************************)
(* The handler, lines 306-411.                                             *)
(***************************************************************************)
\* Fault: the handler without the check of the sender.
Receive_NoAuth(r, body) ==
  /\ req[r].pc = "idle"
  /\ \A q \in Reqs : q < r => req[q].pc # "idle"
  /\ LET rec == [req[r] EXCEPT !.body = body] IN
     req' = [req EXCEPT ![r] =
       IF TextTruthy(body) THEN [rec EXCEPT !.pc = "logCreate"]
       ELSE IF PhotoTruthy(body)
         THEN [rec EXCEPT !.pc = "getFile",
                          !.id = body.photo.list[Len(body.photo.list)]]
       ELSE Done(rec)]
  /\ UNCHANGED <<exts, collectionId, logs, attachments, events, objects, unit, menu>>

\* Fault: the photo tested before the text.
Receive_PhotoFirst(r, body) ==
  /\ req[r].pc = "idle"
  /\ \A q \in Reqs : q < r => req[q].pc # "idle"
  /\ LET rec == [req[r] EXCEPT !.body = body] IN
     req' = [req EXCEPT ![r] =
       IF body.username # TELEGRAM_USERNAME THEN Done(rec)
       ELSE IF PhotoTruthy(body)
         THEN [rec EXCEPT !.pc = "getFile",
                          !.id = body.photo.list[Len(body.photo.list)]]
       ELSE IF TextTruthy(body) THEN [rec EXCEPT !.pc = "logCreate"]
       ELSE Done(rec)]
  /\ UNCHANGED <<exts, collectionId, logs, attachments, events, objects, unit, menu>>

\* Fault: the first photo of the list is taken, not the last.
Receive_FirstPhoto(r, body) ==
  /\ req[r].pc = "idle"
  /\ \A q \in Reqs : q < r => req[q].pc # "idle"
  /\ LET rec == [req[r] EXCEPT !.body = body] IN
     req' = [req EXCEPT ![r] =
       IF body.username # TELEGRAM_USERNAME THEN Done(rec)
       ELSE IF TextTruthy(body) THEN [rec EXCEPT !.pc = "logCreate"]
       ELSE IF PhotoTruthy(body)
         THEN [rec EXCEPT !.pc = "getFile", !.id = body.photo.list[1]]
       ELSE Done(rec)]
  /\ UNCHANGED <<exts, collectionId, logs, attachments, events, objects, unit, menu>>

\* The request arrives: lines 307-318 and 357-360, up to the first await.
Receive(r, body) ==
  /\ req[r].pc = "idle"
  /\ \A q \in Reqs : q < r => req[q].pc # "idle"
  /\ LET rec == [req[r] EXCEPT !.body = body] IN
     req' = [req EXCEPT ![r] =
       IF body.username # TELEGRAM_USERNAME THEN Done(rec)
       ELSE IF TextTruthy(body) THEN [rec EXCEPT !.pc = "logCreate"]
       ELSE IF PhotoTruthy(body)
         THEN [rec EXCEPT !.pc = "getFile",
                          !.id = body.photo.list[Len(body.photo.list)]]
       ELSE Done(rec)]
  /\ UNCHANGED <<exts, collectionId, logs, attachments, events, objects, unit, menu>>

\* Fault: the handler goes on when prisma.log.create rejects.
LogCreateText_Unawaited(r) ==
  /\ req[r].pc = "logCreate"
  /\ LET id == cuid(r) IN
     \/ /\ logs' = logs \cup
              {[id |-> id, message |-> req[r].body.text, attachmentId |-> 0]}
        /\ req' = [req EXCEPT ![r] =
              LoopNext([Called(req[r], "logCreate", "ok") EXCEPT !.log = id])]
     \/ /\ req' = [req EXCEPT ![r] =
              LoopNext([Called(req[r], "logCreate", "fail") EXCEPT !.log = id])]
        /\ UNCHANGED logs
  /\ UNCHANGED <<exts, collectionId, attachments, events, objects, unit, menu>>

\* prisma.log.create({ data: { message } }), lines 320-324
LogCreateText(r) ==
  /\ req[r].pc = "logCreate"
  /\ LET id == cuid(r) IN
     \/ /\ logs' = logs \cup
              {[id |-> id, message |-> req[r].body.text, attachmentId |-> 0]}
        /\ req' = [req EXCEPT ![r] =
              LoopNext([Called(req[r], "logCreate", "ok") EXCEPT !.log = id])]
     \/ /\ req' = [req EXCEPT ![r] =
              Throw(Called(req[r], "logCreate", "fail"), "logCreate")]
        /\ UNCHANGED logs
  /\ UNCHANGED <<exts, collectionId, attachments, events, objects, unit, menu>>

\* Fault: `events = extracted` in place of `events = events.concat(extracted)`.
Extract_Assign(r) ==
  /\ req[r].pc = "extract"
  /\ LET name == exts[req[r].i]
         rec == [Called(req[r], "extractor", "ok") EXCEPT !.ran = Append(@, name)] IN
     req' = [req EXCEPT ![r] =
       IF extractorAwaits(name, Text(rec))
         THEN [rec EXCEPT !.pc = "nutrition"]
         ELSE LoopNext([rec EXCEPT
                !.events = extractorReturns(name, Text(rec))])]
  /\ UNCHANGED <<exts, collectionId, logs, attachments, events, objects, unit, menu>>

\* `await extractor(body.message.text)` and `events = events.concat(extracted)`,
\* lines 329-330, for an extractor that returns without a network call, or up
\* to the fetch of getNutrition
Extract(r) ==
  /\ req[r].pc = "extract"
  /\ LET name == exts[req[r].i]
         rec == [Called(req[r], "extractor", "ok") EXCEPT !.ran = Append(@, name)] IN
     req' = [req EXCEPT ![r] =
       IF extractorAwaits(name, Text(rec))
         THEN [rec EXCEPT !.pc = "nutrition"]
         ELSE LoopNext([rec EXCEPT
                !.events = @ \o extractorReturns(name, Text(rec))])]
  /\ UNCHANGED <<exts, collectionId, logs, attachments, events, objects, unit, menu>>

\* Fault: a failure of getNutrition is caught and the loop goes on.
Nutrition_Caught(r) ==
  /\ req[r].pc = "nutrition"
  /\ \E answer \in NutritionAnswers(menu) :
       LET rec == Called(req[r], "getNutrition", answer.kind) IN
       req' = [req EXCEPT ![r] =
         LoopNext([rec EXCEPT !.events = @ \o foodEvents(answer.foods)])]
  /\ UNCHANGED <<exts, collectionId, logs, attachments, events, objects, unit, menu>>

\* Fault: a failed nutrition request is made a second time.
Nutrition_Retry(r) ==
  /\ req[r].pc = "nutrition"
  /\ \E answer \in NutritionAnswers(menu) :
       LET rec == Called(req[r], "getNutrition", answer.kind) IN
       req' = [req EXCEPT ![r] =
         IF getNutritionThrows(answer)
           THEN IF rec.calls["getNutrition"] < 2 THEN rec
                ELSE Throw(rec, "getNutrition")
         ELSE LoopNext([rec EXCEPT !.events = @ \o foodEvents(answer.foods)])]
  /\ UNCHANGED <<exts, collectionId, logs, attachments, events, objects, unit, menu>>

\* Fault: a failure of getNutrition ends the loop only; what was collected
\* before it is persisted and the handler goes on.
Nutrition_PartialPersist(r) ==
  /\ req[r].pc = "nutrition"
  /\ \E answer \in NutritionAnswers(menu) :
       LET rec == Called(req[r], "getNutrition", answer.kind) IN
       req' = [req EXCEPT ![r] =
         IF getNutritionThrows(answer) THEN AfterLoop(rec)
         ELSE LoopNext([rec EXCEPT !.events = @ \o foodEvents(answer.foods)])]
  /\ UNCHANGED <<exts, collectionId, logs, attachments, events, objects, unit, menu>>

\* getNutrition, lines 259-282, the rest of ateDrankExtractor, 294-298, and
\* `events = events.concat(extracted)`
Nutrition(r) ==
  /\ req[r].pc = "nutrition"
  /\ \E answer \in NutritionAnswers(menu) :
       LET rec == Called(req[r], "getNutrition", answer.kind) IN
       req' = [req EXCEPT ![r] =
         IF getNutritionThrows(answer) THEN Throw(rec, "getNutrition")
         ELSE LoopNext([rec EXCEPT !.events = @ \o foodEvents(answer.foods)])]
  /\ UNCHANGED <<exts, collectionId, logs, attachments, events, objects, unit, menu>>

\* data: events.map((event) => ({ ...event, logId: log.id })); the id of the
\* k-th row is the pair of the request's id and k
eventRows(evs, logId, base) ==
  {[id |-> <<base, k>>, logId |-> logId, type |-> evs[k].type, meta |-> evs[k].meta]
     : k \in 1..Len(evs)}

\* Fault: the id of the Log is kept in a variable the requests share, so
\* createMany may read the id another request wrote.
CreateMany_SharedLog(r) ==
  /\ req[r].pc = "createMany"
  /\ \/ /\ \E l \in logs :
              events' = events \cup eventRows(req[r].events, l.id, cuid(r))
        /\ req' = [req EXCEPT ![r] = AfterEvents(Called(req[r], "createMany", "ok"))]
     \/ /\ req' = [req EXCEPT ![r] =
              Throw(Called(req[r], "createMany", "fail"), "createMany")]
        /\ UNCHANGED events
  /\ UNCHANGED <<exts, collectionId, logs, attachments, objects, unit, menu>>

\* Fault: when createMany rejects, the Log of the request is deleted.
CreateMany_Rollback(r) ==
  /\ req[r].pc = "createMany"
  /\ \/ /\ events' = events \cup
              eventRows(req[r].events, req[r].log, cuid(r))
        /\ req' = [req EXCEPT ![r] = AfterEvents(Called(req[r], "createMany", "ok"))]
        /\ UNCHANGED logs
     \/ /\ req' = [req EXCEPT ![r] =
              Throw(Called(req[r], "createMany", "fail"), "createMany")]
        /\ logs' = {l \in logs : l.id # req[r].log}
        /\ UNCHANGED events
  /\ UNCHANGED <<exts, collectionId, attachments, objects, unit, menu>>

\* prisma.event.createMany, lines 332-339
CreateMany(r) ==
  /\ req[r].pc = "createMany"
  /\ \/ /\ events' = events \cup
              eventRows(req[r].events, req[r].log, cuid(r))
        /\ req' = [req EXCEPT ![r] = AfterEvents(Called(req[r], "createMany", "ok"))]
     \/ /\ req' = [req EXCEPT ![r] =
              Throw(Called(req[r], "createMany", "fail"), "createMany")]
        /\ UNCHANGED events
  /\ UNCHANGED <<exts, collectionId, logs, attachments, objects, unit, menu>>

\* Fault: a failure of createObject is caught and the request is acknowledged.
IndexText_Caught(r) ==
  /\ req[r].pc = "indexText"
  /\ LET push == [parentId |-> collectionId, type |-> "text",
                  text |-> Text(req[r]), attachment |-> 0, log |-> req[r].log]
         rec == [req[r] EXCEPT !.push = push] IN
     \/ /\ objects' = objects \cup {push}
        /\ req' = [req EXCEPT ![r] = Done(Called(rec, "createObject", "ok"))]
     \/ /\ req' = [req EXCEPT ![r] = Done(Called(rec, "createObject", "fail"))]
        /\ UNCHANGED objects
  /\ UNCHANGED <<exts, collectionId, logs, attachments, events, unit, menu>>

\* Fault: when createObject rejects, the Events of the request are deleted.
IndexText_Rollback(r) ==
  /\ req[r].pc = "indexText"
  /\ LET push == [parentId |-> collectionId, type |-> "text",
                  text |-> Text(req[r]), attachment |-> 0, log |-> req[r].log]
         rec == [req[r] EXCEPT !.push = push] IN
     \/ /\ objects' = objects \cup {push}
        /\ req' = [req EXCEPT ![r] = Done(Called(rec, "createObject", "ok"))]
        /\ UNCHANGED events
     \/ /\ req' = [req EXCEPT ![r] =
              Throw(Called(rec, "createObject", "fail"), "createObject")]
        /\ events' = {e \in events : e.logId # req[r].log}
        /\ UNCHANGED objects
  /\ UNCHANGED <<exts, collectionId, logs, attachments, unit, menu>>

\* operand.createObject({ type: "text", ... }), lines 342-356, 410
IndexText(r) ==
  /\ req[r].pc = "indexText"
  /\ LET push == [parentId |-> collectionId, type |-> "text",
                  text |-> Text(req[r]), attachment |-> 0, log |-> req[r].log]
         rec == [req[r] EXCEPT !.push = push] IN
     \/ /\ objects' = objects \cup {push}
        /\ req' = [req EXCEPT ![r] = Done(Called(rec, "createObject", "ok"))]
     \/ /\ req' = [req EXCEPT ![r] =
              Throw(Called(rec, "createObject", "fail"), "createObject")]
        /\ UNCHANGED objects
  /\ UNCHANGED <<exts, collectionId, logs, attachments, events, unit, menu>>

\* The answers of Telegram to a fetch: the fetch rejects, or the response has
\* a status of the 2xx range or not.
FetchAnswers == {"netfail", "non2xx", "ok"}

\* fetch(.../getFile?file_id=${id}), getFileResponse.json() and the read of
\* fileResponse.result.file_path, lines 363-370.  A response that is not 2xx
\* carries no `result`: the read of its file_path throws.
GetFile(r) ==
  /\ req[r].pc = "getFile"
  /\ \E answer \in FetchAnswers :
       LET rec == [Called(req[r], "getFile", answer) EXCEPT
                     !.fetched = Append(@, req[r].id)] IN
       req' = [req EXCEPT ![r] =
         IF answer = "ok"
           THEN [rec EXCEPT !.pc = "download", !.filePath = rec.id]
           ELSE Throw(rec, "getFile")]
  /\ UNCHANGED <<exts, collectionId, logs, attachments, events, objects, unit, menu>>

\* fetch(.../file/bot.../${file_path}), lines 369-371: the status of the
\* response is not looked at
Download(r) ==
  /\ req[r].pc = "download"
  /\ \E answer \in FetchAnswers :
       LET rec == Called(req[r], "download", answer) IN
       req' = [req EXCEPT ![r] =
         IF answer = "netfail" THEN Throw(rec, "download")
         ELSE [rec EXCEPT
                 !.pc = "attachmentCreate",
                 !.file = [status |-> answer,
                           bytes |-> IF answer = "ok" THEN rec.filePath
                                     ELSE ErrorPage]]]
  /\ UNCHANGED <<exts, collectionId, logs, attachments, events, objects, unit, menu>>

\* Fault: the Attachment is created without the bytes of the file.
AttachmentCreate_Empty(r) ==
  /\ req[r].pc = "attachmentCreate"
  /\ LET id == cuid(r) IN
     \/ /\ attachments' = attachments \cup {[id |-> id, contents |-> ""]}
        /\ req' = [req EXCEPT ![r] =
              [Called(req[r], "attachmentCreate", "ok") EXCEPT
                 !.pc = "photoLogCreate", !.attachment = id]]
     \/ /\ req' = [req EXCEPT ![r] =
              Throw(Called(req[r], "attachmentCreate", "fail"), "attachmentCreate")]
        /\ UNCHANGED attachments
  /\ UNCHANGED <<exts, collectionId, logs, events, objects, unit, menu>>

\* file.arrayBuffer() and prisma.attachment.create({ data: { contents } }),
\* lines 374-378
AttachmentCreate(r) ==
  /\ req[r].pc = "attachmentCreate"
  /\ LET id == cuid(r) IN
     \/ /\ attachments' = attachments \cup
              {[id |-> id, contents |-> req[r].file.bytes]}
        /\ req' = [req EXCEPT ![r] =
              [Called(req[r], "attachmentCreate", "ok") EXCEPT
                 !.pc = "photoLogCreate", !.attachment = id]]
     \/ /\ req' = [req EXCEPT ![r] =
              Throw(Called(req[r], "attachmentCreate", "fail"), "attachmentCreate")]
        /\ UNCHANGED attachments
  /\ UNCHANGED <<exts, collectionId, logs, events, objects, unit, menu>>

\* Fault: the Log of a photo is created without the Attachment connected.
LogCreatePhoto_NoConnect(r) ==
  /\ req[r].pc = "photoLogCreate"
  /\ LET id == cuid(r)
         rec == [Called(req[r], "logCreate", "ok") EXCEPT !.log = id] IN
     \/ /\ logs' = logs \cup
              {[id |-> id, message |-> NoText, attachmentId |-> 0]}
        /\ req' = [req EXCEPT ![r] =
              IF collectionId # NoCollection
                THEN [rec EXCEPT !.pc = "indexImage"]
                ELSE Done(rec)]
     \/ /\ req' = [req EXCEPT ![r] =
              Throw(Called(req[r], "logCreate", "fail"), "logCreate")]
        /\ UNCHANGED logs
  /\ UNCHANGED <<exts, collectionId, attachments, events, objects, unit, menu>>

\* prisma.log.create({ data: { Attachment: { connect } } }), lines 381-392
LogCreatePhoto(r) ==
  /\ req[r].pc = "photoLogCreate"
  /\ LET id == cuid(r)
         rec == [Called(req[r], "logCreate", "ok") EXCEPT !.log = id] IN
     \/ /\ logs' = logs \cup
              {[id |-> id, message |-> NoText, attachmentId |-> req[r].attachment]}
        /\ req' = [req EXCEPT ![r] =
              IF collectionId # NoCollection
                THEN [rec EXCEPT !.pc = "indexImage"]
                ELSE Done(rec)]
     \/ /\ req' = [req EXCEPT ![r] =
              Throw(Called(req[r], "logCreate", "fail"), "logCreate")]
        /\ UNCHANGED logs
  /\ UNCHANGED <<exts, collectionId, attachments, events, objects, unit, menu>>

\* operand.createObject({ type: "image", ... }), lines 393-410
IndexImage(r) ==
  /\ req[r].pc = "indexImage"
  /\ LET push == [parentId |-> collectionId, type |-> "image", text |-> << >>,
                  attachment |-> req[r].attachment, log |-> req[r].log]
         rec == [req[r] EXCEPT !.push = push] IN
     \/ /\ objects' = objects \cup {push}
        /\ req' = [req EXCEPT ![r] = Done(Called(rec, "createObject", "ok"))]
     \/ /\ req' = [req EXCEPT ![r] =
              Throw(Called(rec, "createObject", "fail"), "createObject")]
        /\ UNCHANGED objects
  /\ UNCHANGED <<exts, collectionId, logs, attachments, events, unit, menu>>

Step(r) ==
  \/ LogCreateText(r)
  \/ Extract(r)
  \/ Nutrition(r)
  \/ CreateMany(r)
  \/ IndexText(r)
  \/ GetFile(r)
  \/ Download(r)
  \/ AttachmentCreate(r)
  \/ LogCreatePhoto(r)
  \/ IndexImage(r)

(***************************************************************************)
(* Requests in flight together: each arrives with one of a few payloads,   *)
(* one of each kind the handler tells apart.                               *)
(***************************************************************************)
Body(username, text, photo) == [username |-> username, text |-> text, photo |-> photo]
TextOf(t) == [present |-> TRUE, val |-> t]
PhotoOf(l) == [present |-> TRUE, list |-> l]

Payloads ==
  {Body("mallory", TextOf(Text_gm), NoPhoto),
   Body("alice", TextOf(Text_gm), NoPhoto),
   Body("alice", TextOf(Text_i_ate), NoPhoto),
   Body("alice", TextOf(Text_hi), PhotoOf(<<"a">>)),
   Body("alice", NoText, PhotoOf(<<"a", "b">>))}

Next ==
  \/ \E r \in Reqs, body \in Payloads : Receive(r, body)
  \/ \E r \in Reqs : Step(r)

Spec == Init /\ [][Next]_vars

(***************************************************************************)
(* One request, with every payload.                                        *)
(***************************************************************************)
NextOne ==
  \/ \E body \in TelegramRequest : Receive(1, body)
  \/ Step(1)

InitOne ==
  /\ exts = extractors
  /\ collectionId \in CollectionIds
  /\ InitStore
  /\ unit = UnitOff
  /\ menu = Foods

SpecOne == InitOne /\ [][NextOne]_vars

(***************************************************************************)
(* One request, the list of extractors in any order.                       *)
(***************************************************************************)
Orders ==
  {o \in [1..Len(extractors) -> {extractors[k] : k \in 1..Len(extractors)}] :
     \A j, k \in 1..Len(extractors) : j # k => o[j] # o[k]}

InitPerm ==
  /\ exts \in Orders
  /\ collectionId \in CollectionIds
  /\ InitStore
  /\ unit = UnitOff
  /\ menu = Foods

SpecPerm == InitPerm /\ [][NextOne]_vars

(***************************************************************************)
(* One extractor run on one text, on its own: the call, then the answer    *)
(* of the nutrition service when the extractor asks it.                    *)
(***************************************************************************)
InitUnit ==
  /\ exts = extractors
  /\ collectionId = NoCollection
  /\ InitStore
  /\ unit \in {[UnitOff EXCEPT !.pc = "ready", !.message = t] : t \in AllTexts}
  /\ menu = Foods

\* extractor(message), up to its return or to the fetch of getNutrition
UnitCall(name) ==
  /\ unit.pc = "ready"
  /\ unit' =
       IF extractorAwaits(name, unit.message)
         THEN [unit EXCEPT !.pc = "fetch", !.extractor = name]
         ELSE [unit EXCEPT !.pc = "returned", !.extractor = name,
                           !.out = extractorReturns(name, unit.message)]
  /\ UNCHANGED <<exts, collectionId, logs, attachments, events, objects, req, menu>>

\* getNutrition answers, lines 261-298
UnitAnswer ==
  /\ unit.pc = "fetch"
  /\ \E answer \in NutritionAnswers(menu) :
       unit' =
         IF getNutritionThrows(answer)
           THEN [unit EXCEPT !.pc = "threw", !.fetches = @ + 1]
           ELSE [unit EXCEPT !.pc = "returned", !.fetches = @ + 1,
                             !.foods = answer.foods,
                             !.out = foodEvents(answer.foods)]
  /\ UNCHANGED <<exts, collectionId, logs, attachments, events, objects, req, menu>>

NextUnit ==
  \/ \E name \in {extractors[k] : k \in 1..Len(extractors)} : UnitCall(name)
  \/ UnitAnswer

SpecUnit == InitUnit /\ [][NextUnit]_vars

(***************************************************************************)
(* Properties.                                                             *)
(***************************************************************************)
Authorized(rec) == rec.pc # "idle" /\ rec.body.username = TELEGRAM_USERNAME
Finished(rec) == rec.pc \in {"done", "error"}
NoCalls == [s \in Steps |-> 0]
\* the call of `step` that ended `how` is among the calls of the request
Saw(rec, step, how) == \E k \in 1..Len(rec.seen) : rec.seen[k] = <<step, how>>

\* C1: a request whose sender is not the configured username, whatever its
\* text and photos, leaves every table and the search backend empty, calls no
\* extractor, no nutrition request, no fetch and no createObject, and is
\* answered 200.  (One request, every payload.)
C1_UnauthorizedNoEffect ==
  \A r \in Reqs :
    (req[r].pc # "idle" /\ req[r].body.username # TELEGRAM_USERNAME) =>
      /\ logs = {} /\ attachments = {} /\ events = {} /\ objects = {}
      /\ req[r].calls = NoCalls
      /\ req[r].ran = << >>
      /\ req[r].push = NoPush
      /\ req[r].pc = "done"
      /\ req[r].res = "200"

C1_Witness ==
  \E r \in Reqs :
    /\ req[r].pc = "done"
    /\ req[r].body.username = "mallory"
    /\ req[r].body.text = TextOf(Text_gm)
    /\ PhotoTruthy(req[r].body)

\* C2: every row of Event refers to a row of Log that exists, and a request
\* starts its createMany only when the Log row it created exists; over all
\* interleavings of the requests in flight.
C2_NoOrphanEvent ==
  /\ \A e \in events : \E l \in logs : l.id = e.logId
  /\ \A r \in Reqs :
       (req[r].pc = "createMany" \/ req[r].calls["createMany"] > 0) =>
         \E l \in logs : l.id = req[r].log

C2_Witness ==
  /\ Cardinality(logs) = 2
  /\ \E e1, e2 \in events : e1.logId = 1 /\ e2.logId = 2

\* a call of the request ended in a way that makes the handler throw: a
\* rejected promise, a nutrition response that is not ok, or a getFile
\* response without `result`
Raised(rec) ==
  \E k \in 1..Len(rec.seen) :
    \/ rec.seen[k][2] \in {"fail", "netfail", "notok"}
    \/ rec.seen[k] = <<"getFile", "non2xx">>

C4_IndexFailureNotPropagated ==
  \A r \in Reqs :
    Saw(req[r], "createObject", "fail") =>
      req[r].pc = "done" /\ req[r].res = "200"

\* C5: when the nutrition request of a text message fails, the request ends
\* in error, createMany is never called and no row of Event refers to the
\* Log of the request, and that Log row stays, holding the text.
C5_EnrichmentFailureAborts ==
  \A r \in Reqs :
    (Saw(req[r], "getNutrition", "netfail") \/ Saw(req[r], "getNutrition", "notok")) =>
      /\ req[r].pc = "error"
      /\ req[r].calls["createMany"] = 0
      /\ \A e \in events : e.logId # req[r].log
      /\ \E l \in logs : l.id = req[r].log /\ l.message = req[r].body.text

C5_Witness ==
  \E r, q \in Reqs :
    /\ Saw(req[r], "getNutrition", "notok")
    /\ \E l \in logs : l.id = req[r].log /\ l.message = TextOf(Text_i_ate)
    /\ \E e \in events : e.logId = req[q].log

\* C6 as stated: a request whose getFile or download answered with a network
\* failure or a status outside 2xx ends in error, with no Attachment and no
\* Log created.
C6_AcquisitionFailureFatal ==
  \A r \in Reqs :
    (/\ Finished(req[r])
     /\ \E step \in {"getFile", "download"}, how \in {"netfail", "non2xx"} :
          Saw(req[r], step, how)) =>
      /\ req[r].pc = "error"
      /\ req[r].attachment = 0
      /\ req[r].log = 0

\* the word `w` stands in the text `t` from some position on
HasWord(t, w) ==
  \E k \in 1..Len(t) :
    /\ k + Len(w) - 1 <= Len(t)
    /\ \A j \in 1..Len(w) : t[k + j - 1] = w[j]

\* C7: gmExtractor returns one GOOD_MORNING output without metadata when the
\* text is the two characters g, m and nothing else, and the empty list for
\* every other text; gnExtractor likewise with GOOD_NIGHT for g, n.  Neither
\* asks the nutrition service.
C7_MarkerExtractors ==
  /\ unit.extractor = "gmExtractor" =>
       /\ unit.pc = "returned" /\ unit.fetches = 0
       /\ unit.out =
            IF Len(unit.message) = 2 /\ unit.message[1] = "g" /\ unit.message[2] = "m"
              THEN <<[type |-> "GOOD_MORNING", meta |-> NoMeta]>>
              ELSE << >>
  /\ unit.extractor = "gnExtractor" =>
       /\ unit.pc = "returned" /\ unit.fetches = 0
       /\ unit.out =
            IF Len(unit.message) = 2 /\ unit.message[1] = "g" /\ unit.message[2] = "n"
              THEN <<[type |-> "GOOD_NIGHT", meta |-> NoMeta]>>
              ELSE << >>

C7_Witness ==
  /\ unit.extractor = "gmExtractor"
  /\ unit.message = Text_gm
  /\ unit.pc = "returned"
  /\ Len(unit.out) = 1

\* C8: on a text that holds "ate" or "drank", ateDrankExtractor asks the
\* nutrition service once and, when it answers, returns one ATE_OR_DRANK
\* output per food of the answer, in the order of the answer, the food as
\* its metadata; on any other text it returns the empty list and asks
\* nothing.
C8_FoodExtractor ==
  unit.extractor = "ateDrankExtractor" =>
    IF HasWord(unit.message, Text_ate) \/ HasWord(unit.message, Text_drank)
      THEN \/ unit.pc = "fetch" /\ unit.fetches = 0 /\ unit.out = << >>
           \/ unit.pc = "threw" /\ unit.fetches = 1 /\ unit.out = << >>
           \/ /\ unit.pc = "returned" /\ unit.fetches = 1
              /\ Len(unit.out) = Len(unit.foods)
              /\ \A k \in 1..Len(unit.foods) :
                   unit.out[k] = [type |-> "ATE_OR_DRANK", meta |-> unit.foods[k]]
      ELSE unit.pc = "returned" /\ unit.fetches = 0 /\ unit.out = << >>

C8_Witness ==
  /\ unit.extractor = "ateDrankExtractor"
  /\ unit.message = Text_i_drank
  /\ unit.pc = "returned"
  /\ unit.foods = <<"milk", "apple">>

\* C9: with the extractors in any order, the loop over them on the text "gm"
\* ends with exactly one output, GOOD_MORNING, and never asks the nutrition
\* service.
C9_GmAnyOrder ==
  \A r \in Reqs :
    (Authorized(req[r]) /\ req[r].body.text = TextOf(Text_gm)) =>
      /\ req[r].pc # "nutrition"
      /\ req[r].calls["getNutrition"] = 0
      /\ Len(req[r].ran) = Len(exts) =>
           req[r].events = <<[type |-> "GOOD_MORNING", meta |-> NoMeta]>>

C9_Witness ==
  \E r \in Reqs :
    /\ exts = <<"ateDrankExtractor", "gnExtractor", "gmExtractor">>
    /\ Authorized(req[r]) /\ req[r].body.text = TextOf(Text_gm)
    /\ req[r].ran = exts
    /\ req[r].pc = "done"

\* the branch of the handler a request is in, or went through
OnTextPath(rec) ==
  \/ rec.pc \in {"logCreate", "extract", "nutrition", "createMany", "indexText"}
  \/ rec.calls["logCreate"] > 0 /\ rec.calls["getFile"] = 0
OnPhotoPath(rec) ==
  \/ rec.pc \in {"getFile", "download", "attachmentCreate", "photoLogCreate",
                  "indexImage"}
  \/ rec.calls["getFile"] > 0
Unhandled(rec) == rec.pc = "done" /\ rec.calls = NoCalls
HasText(body) == body.text.present /\ body.text.val # << >>
HasPhoto(body) == body.photo.present /\ body.photo.list # << >>

\* C10: an authorized request takes the text branch iff its payload has a
\* text that is not empty, the photo branch iff it has no such text and at
\* least one photo, and neither branch otherwise; with both a text and
\* photos nothing is fetched and no Attachment is created.
C10_Classification ==
  \A r \in Reqs :
    Authorized(req[r]) =>
      /\ OnTextPath(req[r]) <=> HasText(req[r].body)
      /\ OnPhotoPath(req[r]) <=> (~HasText(req[r].body) /\ HasPhoto(req[r].body))
      /\ Unhandled(req[r]) <=> (~HasText(req[r].body) /\ ~HasPhoto(req[r].body))
      /\ (HasText(req[r].body) /\ HasPhoto(req[r].body)) =>
           /\ req[r].calls["getFile"] = 0
           /\ req[r].calls["download"] = 0
           /\ req[r].calls["attachmentCreate"] = 0
           /\ req[r].attachment = 0
           /\ attachments = {}

C10_Witness ==
  \E r \in Reqs :
    /\ Authorized(req[r])
    /\ HasText(req[r].body) /\ HasPhoto(req[r].body)
    /\ req[r].pc = "done"
    /\ \E l \in logs : l.id = req[r].log /\ l.message = req[r].body.text

\* C11: a request on the photo branch asks getFile for the file_id of the
\* last element of the photo list and for no other, at most once, and the
\* path it downloads is the one of that file.
C11_LastPhotoSelected ==
  \A r \in Reqs :
    (Authorized(req[r]) /\ OnPhotoPath(req[r])) =>
      LET list == req[r].body.photo.list IN
      /\ req[r].id = list[Len(list)]
      /\ Len(req[r].fetched) <= 1
      /\ \A k \in 1..Len(req[r].fetched) : req[r].fetched[k] = list[Len(list)]
      /\ req[r].filePath \in {"", list[Len(list)]}

C11_Witness ==
  \E r \in Reqs :
    /\ Authorized(req[r])
    /\ req[r].body.photo.list = <<"a", "b">>
    /\ req[r].fetched = <<"b">>
    /\ Saw(req[r], "download", "ok")

\* the Log row of the request exists
MessagePersisted(rec) == \E l \in logs : l.id = rec.log

\* C12: with a collection configured, a request that has ended, whose Log
\* row exists and whose storage writes all succeeded, has called
\* createObject with the id of that row, whatever the nutrition service
\* answered during extraction.
C12_AlwaysIndexed ==
  \A r \in Reqs :
    (/\ collectionId # NoCollection
     /\ Finished(req[r])
     /\ MessagePersisted(req[r])
     /\ ~Saw(req[r], "createMany", "fail")) =>
      /\ req[r].calls["createObject"] = 1
      /\ req[r].push.parentId = collectionId
      /\ req[r].push.log = req[r].log

\* C13: createObject is called only with a collection configured; its
\* parentId is that collection, its log property is the id of the Log row
\* the same request created before, and its type is "text" with the text of
\* a text message, "image" with the Attachment of a photo message.  With no
\* collection configured nothing is ever pushed.
C13_PushWellFormed ==
  /\ \A r \in Reqs :
       (req[r].pc \in {"indexText", "indexImage"} \/ req[r].calls["createObject"] > 0) =>
         /\ collectionId # NoCollection
         /\ \E l \in logs : l.id = req[r].log
       
  /\ \A r \in Reqs :
       req[r].calls["createObject"] > 0 =>
         /\ req[r].push.parentId = collectionId
         /\ req[r].push.log = req[r].log
         /\ \E l \in logs :
              /\ l.id = req[r].push.log
              /\ IF HasText(req[r].body)
                   THEN /\ req[r].push.type = "text"
                        /\ req[r].push.text = req[r].body.text.val
                        /\ l.message = req[r].body.text
                   ELSE /\ req[r].push.type = "image"
                        /\ req[r].push.attachment = req[r].attachment
                        /\ l.attachmentId = req[r].attachment
  /\ \A o \in objects : \E r \in Reqs : o = req[r].push
  /\ collectionId = NoCollection =>
       /\ objects = {}
       /\ \A r \in Reqs : req[r].push = NoPush

C13_Witness ==
  \E r, q \in Reqs :
    /\ req[r].push.type = "text" /\ req[r].push.log = req[r].log
    /\ req[q].push.type = "image" /\ req[q].push.log = req[q].log
    /\ req[r].push \in objects /\ req[q].push \in objects

\* the Log row has a text that is not empty
RowHasText(l) == l.message.present /\ Len(l.message.val) > 0
\* the Log row refers to a row of Attachment
RowHasAttachment(l) ==
  l.attachmentId # 0 /\ \E a \in attachments : a.id = l.attachmentId

\* C14: in every state every row of Log has either a text that is not empty
\* or a reference to an existing row of Attachment, and never both or
\* neither.  (One request, every payload.)
C14_TextXorAttachment ==
  \A l \in logs : RowHasText(l) # RowHasAttachment(l)

C14_Witness ==
  /\ req[1].body.text = TextOf(Text_empty)
  /\ \E l \in logs : RowHasAttachment(l) /\ ~l.message.present
  /\ req[1].pc = "done"

\* C15: an authorized request whose payload has no text that is not empty
\* and no photo is answered 200 at once: it makes no call at all (no write
\* to Log, Attachment or Event, no extractor, no fetch, no createObject) and
\* every table and the search backend stay empty.  (One request, every
\* payload.)
C15_UnhandledNoEffect ==
  (/\ Authorized(req[1])
   /\ ~HasText(req[1].body)
   /\ ~HasPhoto(req[1].body)) =>
    /\ req[1].pc = "done"
    /\ req[1].res = "200"
    /\ req[1].calls = NoCalls
    /\ req[1].seen = << >>
    /\ req[1].push = NoPush
    /\ logs = {} /\ attachments = {} /\ events = {} /\ objects = {}

C15_Witness ==
  /\ Authorized(req[1])
  /\ req[1].body.text = TextOf(Text_empty)
  /\ req[1].body.photo = PhotoOf(<< >>)
  /\ collectionId # NoCollection
  /\ req[1].pc = "done"

\* the steps that are calls over the network
NetworkSteps == {"getNutrition", "getFile", "download", "createObject"}

\* C16: a request makes each of the nutrition request, getFile, the download
\* and createObject at most once; after one of them failed in a way the
\* handler notices, the request has ended in error without a second call.
C16_NoRetry ==
  \A r \in Reqs : \A s \in NetworkSteps :
    /\ req[r].calls[s] <= 1
    /\ (\E how \in {"fail", "netfail", "notok"} : Saw(req[r], s, how)) =>
         req[r].pc = "error" /\ req[r].thrownBy = s

C16_Witness ==
  \E r, q \in Reqs :
    /\ Saw(req[r], "getNutrition", "notok")
    /\ req[r].calls["getNutrition"] = 1 /\ Finished(req[r])
    /\ Saw(req[q], "download", "netfail")
    /\ req[q].calls["download"] = 1 /\ Finished(req[q])

\* the row of Log that request r creates for its text
TextRow(r) == [id |-> cuid(r), message |-> req[r].body.text, attachmentId |-> 0]
\* an extractor was called for the request, or the request is past the loop
ExtractorReached(rec) ==
  \/ rec.calls["extractor"] > 0
  \/ rec.pc \in {"extract", "nutrition", "createMany", "indexText"}

\* C17: whenever a step brings a request to its first extractor or beyond,
\* the Log row with the text of the request is in the table already; and a
\* Log row of a text request that is in the table stays there, unchanged,
\* through every later step (extraction, createMany, createObject, whether
\* they succeed or fail).
C17_TextPersistedFirst ==
  [][\A r \in Reqs :
       /\ (OnTextPath(req[r]) /\ TextRow(r) \in logs) =>
            (req'[r].body = req[r].body /\ TextRow(r) \in logs')
       /\ ExtractorReached(req'[r]) =>
            [id |-> cuid(r), message |-> req'[r].body.text, attachmentId |-> 0]
              \in logs']_vars

C17_Witness ==
  \E r, q \in Reqs :
    /\ TextRow(r) \in logs /\ Saw(req[r], "createMany", "fail")
    /\ TextRow(q) \in logs /\ Saw(req[q], "getNutrition", "netfail")
    /\ req[r].pc = "error" /\ req[q].pc = "error"

\* C18: no step removes or changes a row of Log, Attachment or Event: each
\* table after a step contains the table before it; and the step in which
\* createObject fails leaves the three tables as they were.
C18_StorageOnlyGrows ==
  [][/\ logs \subseteq logs'
     /\ attachments \subseteq attachments'
     /\ events \subseteq events'
     /\ (\E r \in Reqs : /\ ~Saw(req[r], "createObject", "fail")
                         /\ Saw(req'[r], "createObject", "fail")) =>
          UNCHANGED <<logs, attachments, events>>]_vars

C18_Witness ==
  \E r, q \in Reqs :
    /\ Saw(req[r], "createObject", "fail")
    /\ TextRow(r) \in logs
    /\ \E e \in events : e.logId = req[r].log
    /\ Saw(req[q], "createObject", "fail")
    /\ \E l \in logs : l.id = req[q].log /\ RowHasAttachment(l)

\* what the extractor `name` gives for a text when the nutrition service,
\* if asked, answers with `foods`
OutputOf(name, message, foods) ==
  IF extractorAwaits(name, message) THEN foodEvents(foods)
  ELSE extractorReturns(name, message)
\* the outputs of the three extractors, in the order of the list
PipelineOutputs(message, foods) ==
  OutputOf(exts[1], message, foods) \o OutputOf(exts[2], message, foods)
    \o OutputOf(exts[3], message, foods)
\* the rows of Event that refer to the Log of the request
EventsOf(rec) == {e \in events : e.logId = rec.log}
\* the loop over the extractors ended without a throw
ExtractionCompleted(rec) ==
  rec.pc \in {"createMany", "indexText", "done"} \/ rec.thrownBy \in {"createMany", "createObject"}

AcquisitionSucceeded(rec) ==
  Saw(rec, "getFile", "ok") /\ Saw(rec, "download", "ok")

\* C20: for a photo request whose getFile and download succeeded: no
\* extractor, nutrition request or createMany is ever called and no Event
\* refers to its Log; its Log row exists only once its Attachment row does;
\* once attachment.create succeeded there is exactly one Attachment row of
\* the request and it holds the bytes of the file of the last photo; once
\* log.create succeeded there is exactly one Log row of the request, without
\* text, referring to that Attachment.
C20_PhotoPersistence ==
  \A r \in Reqs :
    (Authorized(req[r]) /\ OnPhotoPath(req[r]) /\ AcquisitionSucceeded(req[r])) =>
      LET rec == req[r]
          list == rec.body.photo.list
          mine == {a \in attachments : a.id = cuid(r)}
          rows == {l \in logs : l.id = cuid(r)} IN
      /\ rec.calls["extractor"] = 0 /\ rec.calls["getNutrition"] = 0
      /\ rec.calls["createMany"] = 0 /\ rec.events = << >>
      /\ {e \in events : e.logId = cuid(r)} = {}
      /\ rec.calls["attachmentCreate"] <= 1 /\ rec.calls["logCreate"] <= 1
      /\ rows # {} => mine # {}
      /\ rec.calls["logCreate"] > 0 => Saw(rec, "attachmentCreate", "ok")
      /\ IF Saw(rec, "attachmentCreate", "ok")
           THEN /\ mine = {[id |-> cuid(r), contents |-> list[Len(list)]]}
                /\ rec.attachment = cuid(r)
           ELSE mine = {} /\ rows = {}
      /\ IF Saw(rec, "logCreate", "ok")
           THEN rows = {[id |-> cuid(r), message |-> NoText,
                         attachmentId |-> rec.attachment]}
           ELSE rows = {}

C20_Witness ==
  \E r \in Reqs :
    /\ Authorized(req[r]) /\ AcquisitionSucceeded(req[r])
    /\ req[r].body.photo.list = <<"a", "b">>
    /\ [id |-> cuid(r), contents |-> "b"] \in attachments
    /\ [id |-> cuid(r), message |-> NoText, attachmentId |-> cuid(r)] \in logs
    /\ req[r].pc = "done"
    /\ events # {}

\* the nutrition request of the request failed: its extractor threw
ExtractorFailed(rec) ==
  Saw(rec, "getNutrition", "netfail") \/ Saw(rec, "getNutrition", "notok")
\* the extractors a request has called, as a set
RanSet(rec) == {rec.ran[k] : k \in 1..Len(rec.ran)}

OwnRow(r, l) ==
  /\ l.id = req[r].log
  /\ IF OnTextPath(req[r])
       THEN l.message = req[r].body.text /\ l.attachmentId = 0
       ELSE l.message = NoText /\ l.attachmentId = req[r].attachment

\* C22: with the requests interleaved at their awaits in every way, two
\* requests never have the same Log; every Event was written by one request,
\* is one of the outputs collected by that request and refers to the Log
\* row that request created; every object in the search backend was pushed
\* by one request, with the text or the Attachment of that request and the
\* id of the Log row that request created.
C22_NoCrossTalk ==
  /\ \A r, q \in Reqs :
       (r # q /\ req[r].log # 0) => req[r].log # req[q].log
  /\ \A e \in events : \E r \in Reqs :
       /\ e.id[1] = cuid(r)
       /\ e.id[2] \in 1..Len(req[r].events)
       /\ e.type = req[r].events[e.id[2]].type
       /\ e.meta = req[r].events[e.id[2]].meta
       /\ e.logId = req[r].log
       /\ \E l \in logs : OwnRow(r, l) /\ l.id = e.logId
  /\ \A r \in Reqs :
       req[r].calls["createObject"] > 0 =>
         /\ req[r].push.log = req[r].log
         /\ \E l \in logs : OwnRow(r, l) /\ l.id = req[r].push.log
         /\ req[r].push.text = (IF OnTextPath(req[r]) THEN Text(req[r]) ELSE << >>)
         /\ req[r].push.attachment = req[r].attachment
         /\ \A q \in Reqs : q # r => req[r].push.log # req[q].log
  /\ \A o \in objects : \E r \in Reqs :
       o = req[r].push /\ Saw(req[r], "createObject", "ok")

\* the later request overtook the earlier one, which is still at an await
C22_Witness ==
  /\ req[1].body.text = TextOf(Text_i_ate) /\ req[1].pc = "indexText"
  /\ req[2].body.text = TextOf(Text_gm) /\ req[2].pc = "done"
  /\ EventsOf(req[1]) # {} /\ EventsOf(req[2]) # {}
  /\ req[2].push \in objects

\* the three extractors, as a set
ExtractorNames == {extractors[k] : k \in 1..Len(extractors)}
\* the extractor can give an output for the text: it returns one at once,
\* or it asks the nutrition service
Triggers(name, message) ==
  extractorAwaits(name, message) \/ extractorReturns(name, message) # << >>
\* the outputs of the extractors called in the order `order`
PipelineIn(order, message, foods) ==
  OutputOf(order[1], message, foods) \o OutputOf(order[2], message, foods)
    \o OutputOf(order[3], message, foods)

\* C23: for every text at most one of gmExtractor, gnExtractor and
\* ateDrankExtractor can give an output; when the extractor run on the text
\* returned one, the two others give none; hence, whatever the nutrition
\* service answers, the outputs of the three extractors on the text are the
\* same for every order of the list, and all of one type.  (One extractor on
\* one text, every text up to MaxLen.)
C23_ExclusiveTriggers ==
  LET m == unit.message
      \* the answers that matter: any list of foods when the service is asked
      answers == IF \E n \in ExtractorNames : extractorAwaits(n, m)
                   THEN SeqsUpTo(menu, MaxFoods) ELSE {<< >>} IN
  /\ Cardinality({n \in ExtractorNames : Triggers(n, m)}) <= 1
  /\ unit.pc = "returned" => unit.out = OutputOf(unit.extractor, m, unit.foods)
  /\ (unit.pc = "returned" /\ unit.out # << >>) =>
       \A n \in ExtractorNames \ {unit.extractor} :
         \A foods \in answers : OutputOf(n, m, foods) = << >>
  /\ \A foods \in answers :
       LET out == PipelineIn(extractors, m, foods) IN
       /\ \A o \in Orders : PipelineIn(o, m, foods) = out
       /\ \A j, k \in 1..Len(out) : out[j].type = out[k].type

C23_Witness ==
  /\ unit.message = Text_i_ate
  /\ unit.extractor = "ateDrankExtractor"
  /\ unit.pc = "returned"
  /\ Len(unit.out) = 2
  /\ gmExtractor(unit.message) = << >> /\ gnExtractor(unit.message) = << >>

====
